---- MODULE Spec2Model ----
(***************************************************************************)
(* The reminder contract of tutorial1 (contract.rs, state.rs, msg.rs): a   *)
(* byte-keyed store holding the Config at "config", one Reminder per       *)
(* caller at the caller's canonical address bytes, and one viewing-key     *)
(* hash per caller under the "viewingkey" prefix.  Keys and values are     *)
(* byte sequences (numbers 0..255), encoded as Bincode2 encodes them.      *)
(***************************************************************************)
EXTENDS Integers, Sequences, FiniteSets, TLC

\* ------------------------------------------------------------------------
\* Option and Result values
\* ------------------------------------------------------------------------
None == [some |-> FALSE]
Some(v) == [some |-> TRUE, val |-> v]

Ok(v) == [ok |-> TRUE, val |-> v]
Err(e) == [ok |-> FALSE, err |-> e]

\* the StdError values the contract produces or passes on
generic_err(msg) == [kind |-> "GenericErr", msg |-> msg]
not_found(type) == [kind |-> "NotFound", msg |-> type]
parse_err(type) == [kind |-> "ParseErr", msg |-> type]
unauthorized == [kind |-> "Unauthorized", msg |-> ""]
\* a Rust panic (unwrap on None): the call aborts
panicked == [kind |-> "Panic", msg |-> ""]

\* ------------------------------------------------------------------------
\* Byte strings
\* ------------------------------------------------------------------------
\* b"config"
CONFIG_KEY == <<99, 111, 110, 102, 105, 103>>
\* b"viewingkey"
PREFIX_VIEWING_KEY == <<118, 105, 101, 119, 105, 110, 103, 107, 101, 121>>

\* String::from_utf8: the bytes are well-formed UTF-8 (RFC 3629 table).
\* A byte 10xxxxxx continues a character and never starts one; every other
\* byte starts one, and must be a lead byte followed by exactly the
\* continuation bytes its range asks for.
IsContinuation(c) == c >= 128 /\ c <= 191

\* the bytes of the character a lead byte starts, 0 for no lead byte
Utf8Width(c) ==
    IF c < 128 THEN 1
    ELSE IF c >= 194 /\ c <= 223 THEN 2
    ELSE IF c >= 224 /\ c <= 239 THEN 3
    ELSE IF c >= 240 /\ c <= 244 THEN 4
    ELSE 0

\* the range of the byte after the lead byte c
SecondLow(c) == IF c = 224 THEN 160 ELSE IF c = 240 THEN 144 ELSE 128
SecondHigh(c) == IF c = 237 THEN 159 ELSE IF c = 244 THEN 143 ELSE 191

ValidUtf8(b) ==
    /\ Len(b) > 0 => ~IsContinuation(b[1])
    /\ \A i \in 1..Len(b) :
         IsContinuation(b[i]) \/
         LET w == Utf8Width(b[i])
         IN  /\ w > 0
             /\ i + w - 1 <= Len(b)
             /\ w >= 2 => b[i + 1] >= SecondLow(b[i]) /\ b[i + 1] <= SecondHigh(b[i])
             /\ \A j \in (i + 1)..(i + w - 1) : IsContinuation(b[j])
             /\ i + w <= Len(b) => ~IsContinuation(b[i + w])

from_utf8(b) == IF ValidUtf8(b) THEN Some(b) ELSE None

\* ------------------------------------------------------------------------
\* Bincode2: fixed-width little-endian integers, Vec<u8> as u64 length
\* followed by the bytes, struct fields in declaration order
\* ------------------------------------------------------------------------
\* the model's numbers stay below 2^31; the upper bytes of a wider
\* integer are then zero
LE(n, w) ==
    [i \in 1..w |-> IF i = 1 THEN n % 256
                    ELSE IF i = 2 THEN (n \div 256) % 256
                    ELSE IF i = 3 THEN (n \div 65536) % 256
                    ELSE IF i = 4 THEN (n \div 16777216) % 256
                    ELSE 0]

\* the bytes encode 2^31 or more
Wide(b) == \E i \in 1..Len(b) : (i > 4 /\ b[i] # 0) \/ (i = 4 /\ b[i] >= 128)

\* the integer the bytes encode; one of 2^31 or more is kept as its bytes
FromLE(b) ==
    IF Wide(b) THEN [wide |-> b]
    ELSE (IF Len(b) >= 1 THEN b[1] ELSE 0)
         + (IF Len(b) >= 2 THEN b[2] * 256 ELSE 0)
         + (IF Len(b) >= 3 THEN b[3] * 65536 ELSE 0)
         + (IF Len(b) >= 4 THEN b[4] * 16777216 ELSE 0)

\* Vec<u8> with its length as a u32
serialize_vec_narrow(v) == LE(Len(v), 4) \o v

serialize_vec(v) == LE(Len(v), 8) \o v

\* struct State { max_size: u16, reminder_count: u64, prng_seed: Vec<u8> }
serialize_State(c) ==
    LE(c.max_size, 2) \o LE(c.reminder_count, 8) \o serialize_vec(c.prng_seed)

\* struct Reminder { content: Vec<u8>, timestamp: u64 }
serialize_Reminder(r) == serialize_vec(r.content) \o LE(r.timestamp, 8)

deserialize_State(b) ==
    IF Len(b) < 18 THEN Err(parse_err("State"))
    ELSE LET nb == SubSeq(b, 11, 18)
             n == FromLE(nb)
         IN  IF Wide(nb) \/ (~Wide(nb) /\ Len(b) < 18 + n)
             THEN Err(parse_err("State"))
             ELSE Ok([max_size |-> FromLE(SubSeq(b, 1, 2)),
                      reminder_count |-> FromLE(SubSeq(b, 3, 10)),
                      prng_seed |-> SubSeq(b, 19, 18 + n)])

deserialize_Reminder(b) ==
    IF Len(b) < 8 THEN Err(parse_err("Reminder"))
    ELSE LET nb == SubSeq(b, 1, 8)
             n == FromLE(nb)
         IN  IF Wide(nb) \/ (~Wide(nb) /\ Len(b) < 8 + n + 8)
             THEN Err(parse_err("Reminder"))
             ELSE Ok([content |-> SubSeq(b, 9, 8 + n),
                      timestamp |-> FromLE(SubSeq(b, 9 + n, 16 + n))])

serialize(T, v) == IF T = "State" THEN serialize_State(v) ELSE serialize_Reminder(v)
deserialize(T, b) == IF T = "State" THEN deserialize_State(b) ELSE deserialize_Reminder(b)

\* ------------------------------------------------------------------------
\* base64::encode and sha_256
\* ------------------------------------------------------------------------
\* the ASCII code of the base64 digit d, 0 <= d < 64
Base64Char(d) ==
    IF d < 26 THEN 65 + d
    ELSE IF d < 52 THEN 97 + (d - 26)
    ELSE IF d < 62 THEN 48 + (d - 52)
    ELSE IF d = 62 THEN 43 ELSE 47

\* the byte at position j, 0 past the end
ByteAt(b, j) == IF j <= Len(b) THEN b[j] ELSE 0

\* standard alphabet, '=' padding: three bytes to four characters
base64_encode(b) ==
    [j \in 1..(4 * ((Len(b) + 2) \div 3)) |->
        LET g == 3 * ((j - 1) \div 4)
            b1 == ByteAt(b, g + 1)
            b2 == ByteAt(b, g + 2)
            b3 == ByteAt(b, g + 3)
            pos == (j - 1) % 4
        IN  IF pos = 0 THEN Base64Char(b1 \div 4)
            ELSE IF pos = 1 THEN Base64Char((b1 % 4) * 16 + b2 \div 16)
            ELSE IF pos = 2
                 THEN (IF g + 2 <= Len(b)
                       THEN Base64Char((b2 % 16) * 4 + b3 \div 64) ELSE 61)
            ELSE (IF g + 3 <= Len(b) THEN Base64Char(b3 % 64) ELSE 61)]

\* SHA-256 as an idealised digest: 32 bytes wide, a function of the length
\* and of every byte of the input, taken in blocks of 64 bytes, and free of
\* collisions on the inputs the model hashes.
Lane(block, j) == IF j <= Len(block) THEN block[j] + 1 ELSE 0

Compress(h, block) ==
    [i \in 1..32 |->
        (h[i] * 7 + Lane(block, i) * 3 + Lane(block, i + 32) * 5
           + Len(block) * 11 + i) % 256]

RECURSIVE AbsorbBlocks(_, _)
AbsorbBlocks(h, b) ==
    IF Len(b) <= 64 THEN Compress(h, b)
    ELSE AbsorbBlocks(Compress(h, SubSeq(b, 1, 64)), SubSeq(b, 65, Len(b)))

sha_256(b) == AbsorbBlocks([i \in 1..32 |-> (i * 37) % 256], b)

\* ------------------------------------------------------------------------
\* Storage: get and set of the byte-keyed store, and the typed helpers
\* ------------------------------------------------------------------------
EmptyStorage == <<>>

get(storage, key) == IF key \in DOMAIN storage THEN Some(storage[key]) ELSE None

set(storage, key, value) ==
    [k \in (DOMAIN storage) \cup {key} |-> IF k = key THEN value ELSE storage[k]]

\* save: serialize and set; Bincode2 serialization of these structs cannot fail
save(storage, key, T, value) == set(storage, key, serialize(T, value))

\* load: NotFound when the key is absent, else the deserialization's result
load(storage, key, T) ==
    LET got == get(storage, key)
    IN  IF ~got.some THEN Err(not_found(T)) ELSE deserialize(T, got.val)

\* may_load that takes bytes it cannot decode for an absent value
may_load_lenient(storage, key, T) ==
    LET got == get(storage, key)
    IN  IF ~got.some THEN Ok(None)
        ELSE LET d == deserialize(T, got.val)
             IN  IF d.ok THEN Ok(Some(d.val)) ELSE Ok(None)

\* may_load: Ok(None) when the key is absent
may_load(storage, key, T) ==
    LET got == get(storage, key)
    IN  IF ~got.some THEN Ok(None)
        ELSE LET d == deserialize(T, got.val)
             IN  IF d.ok THEN Ok(Some(d.val)) ELSE d

\* PrefixedStorage::new(namespace): keys are the namespace, preceded by its
\* length as two big-endian bytes, followed by the key
to_length_prefixed(namespace) ==
    <<Len(namespace) \div 256, Len(namespace) % 256>> \o namespace

\* one key for the viewing keys of all owners: the owner is left out
ViewingKeyStoreKey_shared(owner) == to_length_prefixed(PREFIX_VIEWING_KEY)

ViewingKeyStoreKey(owner) == to_length_prefixed(PREFIX_VIEWING_KEY) \o owner

\* ------------------------------------------------------------------------
\* ViewingKey (crate::viewing_key)
\* ------------------------------------------------------------------------
\* the length of a stored viewing-key hash
VIEWING_KEY_SIZE == 32

\* ViewingKey::new: the token drawn from the contract seed, the caller's
\* entropy and the environment's randomness; a printable string
ViewingKey_new(env, seed, entropy) ==
    base64_encode(sha_256(seed \o entropy \o env.random))

\* ViewingKey::to_hashed: the one-way hash that is stored
to_hashed(key) == sha_256(key)

\* constant-time comparison: every byte of equally long slices is compared,
\* wherever they differ; `compared` counts the byte comparisons
ct_slice_compare(a, b) ==
    IF Len(a) # Len(b) THEN [eq |-> FALSE, compared |-> 0]
    ELSE [eq |-> \A i \in 1..Len(a) : a[i] = b[i], compared |-> Len(a)]

\* ViewingKey::check_viewing_key: hash the presented key, compare
check_viewing_key(key, hashed_pw) == ct_slice_compare(to_hashed(key), hashed_pw)

ZeroBuffer == [i \in 1..VIEWING_KEY_SIZE |-> 0]

\* write_viewing_key storing the key as it is, not its hash
write_viewing_key_plain(store, owner, key) ==
    set(store, ViewingKeyStoreKey(owner), key)

\* write_viewing_key on the store itself, without the PrefixedStorage
write_viewing_key_flat(store, owner, key) ==
    set(store, owner, to_hashed(key))

\* write_viewing_key keeping the hash an owner already has
write_viewing_key_once(store, owner, key) ==
    IF get(store, ViewingKeyStoreKey(owner)).some THEN store
    ELSE set(store, ViewingKeyStoreKey(owner), to_hashed(key))

\* write_viewing_key: set the hash under the prefixed key
write_viewing_key(store, owner, key) ==
    set(store, ViewingKeyStoreKey(owner), to_hashed(key))

\* read_viewing_key: get the raw bytes under the prefixed key
read_viewing_key(store, owner) == get(store, ViewingKeyStoreKey(owner))

\* ------------------------------------------------------------------------
\* The host's Api: human address to canonical address, or an error
\* ------------------------------------------------------------------------
canonical_address(api, human) ==
    IF human \in DOMAIN api THEN Ok(api[human])
    ELSE Err(generic_err("canonicalize_address errored"))

\* ------------------------------------------------------------------------
\* contract.rs: every entry point maps the storage it is given to the storage
\* it leaves, the keys it set (in order) and its result
\* ------------------------------------------------------------------------
Outcome(storage, writes, result) ==
    [storage |-> storage, writes |-> writes, result |-> result]

\* valid_max_size with a truncating cast (val as u16) for the conversion
valid_max_size_cast(val) ==
    IF val < 1 THEN None ELSE Some(val % 65536)

\* limit the max message size to values in 1..65535
valid_max_size(val) ==
    IF val < 1 THEN None
    ELSE IF val <= 65535 THEN Some(val) ELSE None

\* init saving the Config before it looks at max_size
init_saving_first(storage, msg) ==
    LET max_size == valid_max_size(msg.max_size)
        config == [max_size |-> IF max_size.some THEN max_size.val ELSE 0,
                   reminder_count |-> 0,
                   prng_seed |-> sha_256(base64_encode(msg.prng_seed))]
        saved == save(storage, CONFIG_KEY, "State", config)
    IN  IF ~max_size.some
        THEN Outcome(saved, <<CONFIG_KEY>>,
                 Err(generic_err("Invalid max_size. Must be in the range of 1..65535.")))
        ELSE Outcome(saved, <<CONFIG_KEY>>, Ok([answer |-> "InitResponse"]))

init(storage, msg) ==
    LET max_size == valid_max_size(msg.max_size)
    IN  IF ~max_size.some
        THEN Outcome(storage, <<>>,
                 Err(generic_err("Invalid max_size. Must be in the range of 1..65535.")))
        ELSE LET config == [max_size |-> max_size.val,
                            reminder_count |-> 0,
                            prng_seed |-> sha_256(base64_encode(msg.prng_seed))]
             IN  Outcome(save(storage, CONFIG_KEY, "State", config),
                         <<CONFIG_KEY>>,
                         Ok([answer |-> "InitResponse"]))

\* try_record with the size test off by one: a payload of exactly max_size
\* bytes is refused
try_record_strict(storage, api, env, reminder) ==
    LET loaded == load(storage, CONFIG_KEY, "State")
    IN  IF ~loaded.ok THEN Outcome(storage, <<>>, loaded)
        ELSE IF Len(reminder) >= loaded.val.max_size
        THEN Outcome(storage, <<>>,
                 Ok([answer |-> "Record",
                     status |-> "Message is too long. Reminder not recorded."]))
        ELSE LET sender_address == canonical_address(api, env.sender)
                 s1 == save(storage, sender_address.val, "Reminder",
                            [content |-> reminder, timestamp |-> env.time])
                 s2 == save(s1, CONFIG_KEY, "State",
                            [loaded.val EXCEPT !.reminder_count = @ + 1])
             IN  IF ~sender_address.ok THEN Outcome(storage, <<>>, sender_address)
                 ELSE Outcome(s2, <<sender_address.val, CONFIG_KEY>>,
                              Ok([answer |-> "Record",
                                  status |-> "Reminder recorded!"]))

\* try_record saving the Config as it loaded it: the count is not raised
try_record_uncounted(storage, api, env, reminder) ==
    LET loaded == load(storage, CONFIG_KEY, "State")
    IN  IF ~loaded.ok THEN Outcome(storage, <<>>, loaded)
        ELSE IF Len(reminder) > loaded.val.max_size
        THEN Outcome(storage, <<>>,
                 Ok([answer |-> "Record",
                     status |-> "Message is too long. Reminder not recorded."]))
        ELSE LET sender_address == canonical_address(api, env.sender)
                 s1 == save(storage, sender_address.val, "Reminder",
                            [content |-> reminder, timestamp |-> env.time])
                 s2 == save(s1, CONFIG_KEY, "State", loaded.val)
             IN  IF ~sender_address.ok THEN Outcome(storage, <<>>, sender_address)
                 ELSE Outcome(s2, <<sender_address.val, CONFIG_KEY>>,
                              Ok([answer |-> "Record",
                                  status |-> "Reminder recorded!"]))

\* try_record keeping the Reminder a caller already has
try_record_keeping_first(storage, api, env, reminder) ==
    LET loaded == load(storage, CONFIG_KEY, "State")
    IN  IF ~loaded.ok THEN Outcome(storage, <<>>, loaded)
        ELSE IF Len(reminder) > loaded.val.max_size
        THEN Outcome(storage, <<>>,
                 Ok([answer |-> "Record",
                     status |-> "Message is too long. Reminder not recorded."]))
        ELSE LET sender_address == canonical_address(api, env.sender)
                 s1 == IF get(storage, sender_address.val).some THEN storage
                       ELSE save(storage, sender_address.val, "Reminder",
                                 [content |-> reminder, timestamp |-> env.time])
                 s2 == save(s1, CONFIG_KEY, "State",
                            [loaded.val EXCEPT !.reminder_count = @ + 1])
             IN  IF ~sender_address.ok THEN Outcome(storage, <<>>, sender_address)
                 ELSE Outcome(s2, <<sender_address.val, CONFIG_KEY>>,
                              Ok([answer |-> "Record",
                                  status |-> "Reminder recorded!"]))

try_record(storage, api, env, reminder) ==
    LET loaded == load(storage, CONFIG_KEY, "State")
    IN  IF ~loaded.ok THEN Outcome(storage, <<>>, loaded)
        ELSE LET config == loaded.val
             IN  IF Len(reminder) > config.max_size
                 THEN Outcome(storage, <<>>,
                          Ok([answer |-> "Record",
                              status |-> "Message is too long. Reminder not recorded."]))
                 ELSE LET sender_address == canonical_address(api, env.sender)
                      IN  IF ~sender_address.ok
                          THEN Outcome(storage, <<>>, sender_address)
                          ELSE LET stored_reminder ==
                                       [content |-> reminder, timestamp |-> env.time]
                                   s1 == save(storage, sender_address.val,
                                              "Reminder", stored_reminder)
                                   counted == [config EXCEPT
                                                 !.reminder_count = @ + 1]
                                   s2 == save(s1, CONFIG_KEY, "State", counted)
                               IN  Outcome(s2,
                                       <<sender_address.val, CONFIG_KEY>>,
                                       Ok([answer |-> "Record",
                                           status |-> "Reminder recorded!"]))

\* the answer try_read builds: may_load(..).ok().unwrap() panics on a
\* decoding error
ReadAnswer(storage, address) ==
    LET result == may_load(storage, address, "Reminder")
    IN  IF ~result.ok THEN Err(panicked)
        ELSE IF result.val.some
        THEN Ok([answer |-> "Read",
                 status |-> "Reminder found.",
                 reminder |-> from_utf8(result.val.val.content),
                 timestamp |-> Some(result.val.val.timestamp)])
        ELSE Ok([answer |-> "Read",
                 status |-> "Reminder not found.",
                 reminder |-> None,
                 timestamp |-> None])

\* try_read that hands the Reminder out once: it removes what it has read
try_read_consuming(storage, api, env) ==
    LET sender_address == canonical_address(api, env.sender)
    IN  IF ~sender_address.ok THEN Outcome(storage, <<>>, sender_address)
        ELSE Outcome([k \in (DOMAIN storage) \ {sender_address.val} |-> storage[k]],
                     <<>>, ReadAnswer(storage, sender_address.val))

try_read(storage, api, env) ==
    LET sender_address == canonical_address(api, env.sender)
    IN  IF ~sender_address.ok THEN Outcome(storage, <<>>, sender_address)
        ELSE Outcome(storage, <<>>, ReadAnswer(storage, sender_address.val))

\* try_generate_viewing_key drawing a new contract seed with every key and
\* saving it in the Config
try_generate_viewing_key_reseeding(storage, api, env, entropy) ==
    LET loaded == load(storage, CONFIG_KEY, "State")
    IN  IF ~loaded.ok THEN Outcome(storage, <<>>, loaded)
        ELSE LET key == ViewingKey_new(env, loaded.val.prng_seed, entropy)
                 message_sender == canonical_address(api, env.sender)
                 reseeded == save(storage, CONFIG_KEY, "State",
                                  [loaded.val EXCEPT !.prng_seed = sha_256(key)])
             IN  IF ~message_sender.ok
                 THEN Outcome(storage, <<>>, message_sender)
                 ELSE Outcome(write_viewing_key(reseeded, message_sender.val, key),
                              <<CONFIG_KEY, ViewingKeyStoreKey(message_sender.val)>>,
                              Ok([answer |-> "GenerateViewingKey", key |-> key]))

try_generate_viewing_key(storage, api, env, entropy) ==
    LET loaded == load(storage, CONFIG_KEY, "State")
    IN  IF ~loaded.ok THEN Outcome(storage, <<>>, loaded)
        ELSE LET key == ViewingKey_new(env, loaded.val.prng_seed, entropy)
                 message_sender == canonical_address(api, env.sender)
             IN  IF ~message_sender.ok
                 THEN Outcome(storage, <<>>, message_sender)
                 ELSE Outcome(write_viewing_key(storage, message_sender.val, key),
                              <<ViewingKeyStoreKey(message_sender.val)>>,
                              Ok([answer |-> "GenerateViewingKey", key |-> key]))

handle(storage, api, env, msg) ==
    IF msg.type = "Record" THEN try_record(storage, api, env, msg.reminder)
    ELSE IF msg.type = "Read" THEN try_read(storage, api, env)
    ELSE try_generate_viewing_key(storage, api, env, msg.entropy)

\* query_stats that counts no Reminder when there is no Config
query_stats_default(storage) ==
    LET loaded == load(storage, CONFIG_KEY, "State")
    IN  Ok([answer |-> "Stats",
            reminder_count |-> IF loaded.ok THEN loaded.val.reminder_count ELSE 0])

query_stats(storage) ==
    LET loaded == load(storage, CONFIG_KEY, "State")
    IN  IF ~loaded.ok THEN loaded
        ELSE Ok([answer |-> "Stats", reminder_count |-> loaded.val.reminder_count])

\* query_read answering without the timestamp
query_read_untimed(storage, api, address) ==
    LET sender_address == canonical_address(api, address)
        result == may_load(storage, sender_address.val, "Reminder")
    IN  IF ~sender_address.ok THEN sender_address
        ELSE IF ~result.ok THEN Err(panicked)
        ELSE Ok([answer |-> "Read",
                 status |-> IF result.val.some THEN "Reminder found."
                            ELSE "Reminder not found.",
                 reminder |-> IF result.val.some
                              THEN from_utf8(result.val.val.content) ELSE None,
                 timestamp |-> None])

query_read(storage, api, address) ==
    LET sender_address == canonical_address(api, address)
    IN  IF ~sender_address.ok THEN sender_address
        ELSE LET result == may_load(storage, sender_address.val, "Reminder")
             IN  IF ~result.ok THEN Err(panicked)
                 ELSE IF result.val.some
                 THEN LET stored_reminder == result.val.val
                      IN  Ok([answer |-> "Read",
                              status |-> "Reminder found.",
                              reminder |-> from_utf8(stored_reminder.content),
                              timestamp |-> Some(stored_reminder.timestamp)])
                 ELSE Ok([answer |-> "Read",
                          status |-> "Reminder not found.",
                          reminder |-> None,
                          timestamp |-> None])

\* QueryMsg::get_validation_params: the one address of a Read, and its key
get_validation_params(msg) == [addresses |-> <<msg.address>>, key |-> msg.key]

\* the loop over the candidate addresses from the i-th on; `steps` lists the
\* comparisons made so far: the buffer compared against and the bytes compared
RECURSIVE CheckFrom(_, _, _, _, _)
CheckFrom(storage, api, msg, i, steps) ==
    LET params == get_validation_params(msg)
    IN  IF i > Len(params.addresses)
        THEN [result |-> Err(unauthorized), steps |-> steps]
        ELSE LET canonical_addr == canonical_address(api, params.addresses[i])
             IN  IF ~canonical_addr.ok
                 THEN [result |-> canonical_addr, steps |-> steps]
                 ELSE LET expected_key == read_viewing_key(storage, canonical_addr.val)
                          against == IF expected_key.some THEN expected_key.val
                                     ELSE ZeroBuffer
                          check == check_viewing_key(params.key, against)
                          done == Append(steps, [against |-> against,
                                                 compared |-> check.compared])
                      IN  IF expected_key.some /\ check.eq
                          THEN [result |-> query_read(storage, api, msg.address),
                                steps |-> done]
                          ELSE CheckFrom(storage, api, msg, i + 1, done)

\* authenticated_queries without the comparison: a stored key of any value
\* lets the query through
authenticated_queries_unchecked(storage, api, msg) ==
    LET canonical_addr == canonical_address(api, msg.address)
    IN  IF ~canonical_addr.ok THEN [result |-> canonical_addr, steps |-> <<>>]
        ELSE IF read_viewing_key(storage, canonical_addr.val).some
        THEN [result |-> query_read(storage, api, msg.address), steps |-> <<>>]
        ELSE [result |-> Err(unauthorized), steps |-> <<>>]

\* authenticated_queries leaving at once when the target has no key stored:
\* the comparison against the zero buffer is skipped
authenticated_queries_early(storage, api, msg) ==
    LET canonical_addr == canonical_address(api, msg.address)
    IN  IF canonical_addr.ok /\ ~read_viewing_key(storage, canonical_addr.val).some
        THEN [result |-> Err(unauthorized), steps |-> <<>>]
        ELSE CheckFrom(storage, api, msg, 1, <<>>)

authenticated_queries(storage, api, msg) == CheckFrom(storage, api, msg, 1, <<>>)

query(storage, api, msg) ==
    IF msg.type = "Stats"
    THEN [result |-> query_stats(storage), steps |-> <<>>]
    ELSE authenticated_queries(storage, api, msg)

\* ------------------------------------------------------------------------
\* The inputs the calls are drawn from
\* ------------------------------------------------------------------------
\* successful Record calls in one run
MaxRecords == 2

\* InitMsg.max_size is an i32
MaxSizes == {-2147483647 - 1, -1, 0, 1, 65535, 65536, 2147483647}
\* "abc"
Seeds == {<<97, 98, 99>>}
\* "a" (one byte) and "e" with an acute accent (one character, two bytes)
Payloads == {<<97>>, <<195, 169>>}
\* "ent" and the empty string
Entropies == {<<101, 110, 116>>, <<>>}
\* env.block.time of the block a call runs in
Times == {1571797419, 1571797420}
\* the randomness the host supplies to a call
Randoms == {<<1>>}
\* "wrong": a key no call ever returned
WrongKey == <<119, 114, 111, 110, 103>>

\* canonical addresses are 20 bytes long on the chain
Canonical(b) == [i \in 1..20 |-> b]

\* the host resolves these addresses, and no other
HostApi == [h \in {"alice", "bob"} |-> IF h = "alice" THEN Canonical(1) ELSE Canonical(2)]

\* an Api that resolves carol to the bytes "config", and mallory to the bytes
\* of the key carol's viewing key is stored under
CraftedApi ==
    [h \in {"carol", "mallory"} |->
        IF h = "carol" THEN CONFIG_KEY ELSE ViewingKeyStoreKey(CONFIG_KEY)]

\* an address the host cannot resolve
Unresolvable == "nobody"

\* the seed init stores for the seed it is given
StoredSeed(prng_seed) == sha_256(base64_encode(prng_seed))

\* every key the contract can issue, by stored seed
IssuableKeys ==
    [seed \in {StoredSeed(s) : s \in Seeds} |->
        {ViewingKey_new([random |-> r], seed, e) : r \in Randoms, e \in Entropies}]

\* the keys a query may present: every key the contract can issue under its
\* seed, and a wrong one
PresentedKeys(storage) ==
    LET loaded == load(storage, CONFIG_KEY, "State")
    IN  {WrongKey} \cup
        (IF loaded.ok /\ loaded.val.prng_seed \in DOMAIN IssuableKeys
         THEN IssuableKeys[loaded.val.prng_seed]
         ELSE {})

\* ------------------------------------------------------------------------
\* State
\* ------------------------------------------------------------------------
VARIABLES
    storage,        \* deps.storage: key bytes to value bytes
    api,            \* deps.api: the addresses the host resolves
    instantiated,   \* the host has run init successfully
    last,           \* the latest call: operation, caller, message, storage
                    \*   keys set, result, comparisons made
    fresh,          \* the latest call is an AuthenticatedRead of the caller and
                    \*   the key of the GenerateViewingKey right before it
    replaced,       \* the key, with its owner, that a GenerateViewingKey
                    \*   replaced by a different one, while every call since
                    \*   is an AuthenticatedRead of the owner presenting it
    hist            \* history: successful Records, what init was given,
                    \*   each caller's latest recorded Reminder and issued key

vars == <<storage, api, instantiated, last, fresh, replaced, hist>>

NoCall == [op |-> "none", sender |-> "", msg |-> [type |-> "none"],
           time |-> 0, writes |-> <<>>, result |-> Ok([answer |-> "none"]),
           steps |-> <<>>]

Call(op, sender, msg, time, writes, result, steps) ==
    [op |-> op, sender |-> sender, msg |-> msg, time |-> time,
     writes |-> writes, result |-> result, steps |-> steps]

\* the key a call issued, with its caller
Issued(call) ==
    IF call.op = "GenerateViewingKey" /\ call.result.ok
    THEN Some([who |-> call.sender, key |-> call.result.val.key])
    ELSE None

InitWith(hostApi) ==
    /\ storage = EmptyStorage
    /\ api = hostApi
    /\ instantiated = FALSE
    /\ last = NoCall
    /\ fresh = FALSE
    /\ replaced = None
    /\ hist = [records |-> 0,
               config |-> None,
               reminder |-> [h \in DOMAIN hostApi |-> None],
               key |-> [h \in DOMAIN hostApi |-> None]]

Init == InitWith(HostApi)

InitCrafted == InitWith(CraftedApi)

\* the host keeps the storage a call leaves only when the call succeeds
Commit(out) == IF out.result.ok THEN out.storage ELSE storage

\* the host runs init once per contract instance
Initialize ==
    /\ ~instantiated
    /\ \E max_size \in MaxSizes, prng_seed \in Seeds :
         LET msg == [type |-> "Init", max_size |-> max_size, prng_seed |-> prng_seed]
         IN  \E out \in {init(storage, msg)} :
               /\ storage' = Commit(out)
               /\ instantiated' = out.result.ok
               /\ last' = Call("Initialize", "", msg, 0, out.writes, out.result, <<>>)
               /\ hist' = IF out.result.ok
                          THEN [hist EXCEPT !.config =
                                   Some([max_size |-> max_size,
                                         prng_seed |-> prng_seed])]
                          ELSE hist
    /\ fresh' = FALSE
    /\ replaced' = None
    /\ UNCHANGED api

Record ==
    /\ hist.records < MaxRecords
    /\ \E sender \in DOMAIN api, time \in Times, random \in Randoms,
          reminder \in Payloads :
         LET msg == [type |-> "Record", reminder |-> reminder]
             env == [sender |-> sender, time |-> time, random |-> random]
         IN  \E out \in {handle(storage, api, env, msg)} :
               /\ storage' = Commit(out)
               /\ last' = Call("Record", sender, msg, time, out.writes,
                               out.result, <<>>)
               /\ hist' = IF out.result.ok
                             /\ out.result.val.status = "Reminder recorded!"
                          THEN [hist EXCEPT
                                  !.records = @ + 1,
                                  !.reminder[sender] =
                                      Some([content |-> reminder,
                                            timestamp |-> time])]
                          ELSE hist
    /\ fresh' = FALSE
    /\ replaced' = None
    /\ UNCHANGED <<api, instantiated>>

\* try_read reads the sender only
Read ==
    /\ \E sender \in DOMAIN api :
         LET msg == [type |-> "Read"]
             env == [sender |-> sender, time |-> 0, random |-> <<>>]
         IN  \E out \in {handle(storage, api, env, msg)} :
               /\ storage' = Commit(out)
               /\ last' = Call("Read", sender, msg, 0, out.writes, out.result, <<>>)
    /\ fresh' = FALSE
    /\ replaced' = None
    /\ UNCHANGED <<api, instantiated, hist>>

\* try_generate_viewing_key reads the sender, and hands the block to
\* ViewingKey::new for its randomness
GenerateViewingKey ==
    /\ \E sender \in DOMAIN api, random \in Randoms, entropy \in Entropies :
         LET msg == [type |-> "GenerateViewingKey", entropy |-> entropy]
             env == [sender |-> sender, time |-> 0, random |-> random]
         IN  \E out \in {handle(storage, api, env, msg)} :
               /\ storage' = Commit(out)
               /\ last' = Call("GenerateViewingKey", sender, msg, 0, out.writes,
                               out.result, <<>>)
               /\ hist' = IF out.result.ok
                          THEN [hist EXCEPT !.key[sender] = Some(out.result.val.key)]
                          ELSE hist
               /\ replaced' = IF out.result.ok /\ hist.key[sender].some
                                   /\ hist.key[sender].val # out.result.val.key
                                THEN Some([who |-> sender, key |-> hist.key[sender].val])
                                ELSE None
    /\ fresh' = FALSE
    /\ UNCHANGED <<api, instantiated>>

\* a query runs on read-only storage
Stats ==
    /\ \E out \in {query(storage, api, [type |-> "Stats"])} :
         last' = Call("Stats", "", [type |-> "Stats"], 0, <<>>, out.result, out.steps)
    /\ fresh' = FALSE
    /\ replaced' = None
    /\ UNCHANGED <<storage, api, instantiated, hist>>

AuthenticatedRead ==
    /\ \E address \in (DOMAIN api) \cup {Unresolvable}, key \in PresentedKeys(storage) :
         LET msg == [type |-> "Read", address |-> address, key |-> key]
         IN  \E out \in {query(storage, api, msg)} :
               /\ last' = Call("AuthenticatedRead", "", msg, 0, <<>>,
                               out.result, out.steps)
               /\ fresh' = (Issued(last) = Some([who |-> address, key |-> key]))
               /\ replaced' = IF replaced = Some([who |-> address, key |-> key])
                                THEN replaced ELSE None
    /\ UNCHANGED <<storage, api, instantiated, hist>>

Next ==
    \/ Initialize
    \/ Record
    \/ Read
    \/ GenerateViewingKey
    \/ Stats
    \/ AuthenticatedRead

Spec == Init /\ [][Next]_vars

SpecCrafted == InitCrafted /\ [][Next]_vars

\* ------------------------------------------------------------------------
\* Properties
\* ------------------------------------------------------------------------
\* the Config the store holds, when it holds one that decodes
StoredConfig(store) == load(store, CONFIG_KEY, "State")

Recorded == Ok([answer |-> "Record", status |-> "Reminder recorded!"])
TooLong == Ok([answer |-> "Record",
               status |-> "Message is too long. Reminder not recorded."])

\* C1: on an initialized store, a Record of payload p by A stores p (with the
\* block time) as A's Reminder and answers "Reminder recorded!" when
\* len(p) <= Config.max_size; when len(p) > max_size it sets no key, leaves
\* the whole store as it was and answers Ok with the "too long" status.
C1_RecordStep ==
    (last'.op = "Record" /\ StoredConfig(storage).ok) =>
        LET p == last'.msg.reminder
            A == api[last'.sender]
        IN  IF Len(p) <= StoredConfig(storage).val.max_size
            THEN /\ last'.result = Recorded
                 /\ load(storage', A, "Reminder") =
                        Ok([content |-> p, timestamp |-> last'.time])
            ELSE /\ last'.result = TooLong
                 /\ last'.writes = <<>>
                 /\ storage' = storage

C1_RecordPersistsIffFits == [][C1_RecordStep]_vars

\* a too-long Record by a caller who has a Reminder and a viewing key
C1_Witness ==
    /\ last.op = "Record"
    /\ last.result = TooLong
    /\ hist.reminder[last.sender].some
    /\ hist.key[last.sender].some

\* C2: once init has run, the reminder_count Stats reports equals the number
\* of successful Records made so far; a step that is a successful Record
\* raises the stored count by exactly 1, every other step (a refused Record
\* and every other operation included) leaves it as it is.
C2_CountStep ==
    /\ instantiated' =>
           query_stats(storage') =
               Ok([answer |-> "Stats", reminder_count |-> hist'.records])
    /\ instantiated =>
           StoredConfig(storage').val.reminder_count =
               StoredConfig(storage).val.reminder_count
                 + (IF last'.op = "Record" /\ last'.result = Recorded
                    THEN 1 ELSE 0)

C2_CountIsSuccessfulRecords == [][C2_CountStep]_vars

\* Stats reports two Records, one by each caller
C2_Witness ==
    /\ last.op = "Stats"
    /\ last.result = Ok([answer |-> "Stats", reminder_count |-> MaxRecords])
    /\ \A h \in DOMAIN api : hist.reminder[h].some

InvalidConfig ==
    Err(generic_err("Invalid max_size. Must be in the range of 1..65535."))

\* C3: an Initialize whose max_size is below 1 or above 65535 fails with the
\* "Invalid max_size" error, sets no key and leaves the store as it was, with
\* no Config in it.
C3_InitStep ==
    (last'.op = "Initialize"
       /\ (last'.msg.max_size < 1 \/ last'.msg.max_size > 65535)) =>
        /\ last'.result = InvalidConfig
        /\ last'.writes = <<>>
        /\ storage' = storage
        /\ get(storage', CONFIG_KEY) = None
        /\ ~instantiated'

C3_InvalidMaxSizeRejected == [][C3_InitStep]_vars

\* a refused Initialize whose max_size is one above the range
C3_Witness ==
    /\ last.op = "Initialize"
    /\ last.msg.max_size = 65536
    /\ last.result = InvalidConfig
    /\ storage = EmptyStorage

\* the answer a Read of the caller h gives, from the history of Records
ExpectedRead(h) ==
    IF hist.reminder[h].some
    THEN Ok([answer |-> "Read",
             status |-> "Reminder found.",
             reminder |-> Some(hist.reminder[h].val.content),
             timestamp |-> Some(hist.reminder[h].val.timestamp)])
    ELSE Ok([answer |-> "Read",
             status |-> "Reminder not found.",
             reminder |-> None,
             timestamp |-> None])

\* C4: an AuthenticatedRead of A with the key that the call right before it,
\* a GenerateViewingKey by A, returned succeeds: it answers "Reminder found."
\* with the content and timestamp of A's latest successful Record, or
\* "Reminder not found." when A has made none.
C4_FreshKeyReads == fresh => last.result = ExpectedRead(last.msg.address)

\* such a read, finding the Reminder of its target
C4_Witness ==
    /\ fresh
    /\ last.op = "AuthenticatedRead"
    /\ hist.reminder[last.msg.address].some
    /\ last.result.ok
    /\ last.result.val.status = "Reminder found."

\* C5: an AuthenticatedRead of a target the host resolves fails with
\* Unauthorized, carrying no Reminder data, when the target never called
\* GenerateViewingKey (no ViewingKeyRecord is stored for it) and when the
\* hash of the presented key differs from the target's ViewingKeyRecord.
C5_WrongOrNoKeyUnauthorized ==
    (last.op = "AuthenticatedRead" /\ last.msg.address \in DOMAIN api) =>
        LET target == last.msg.address
            record == read_viewing_key(storage, api[target])
        IN  (\/ ~hist.key[target].some
             \/ ~record.some
             \/ to_hashed(last.msg.key) # record.val)
            => last.result = Err(unauthorized)

\* a key issued to one caller, presented for another caller who holds a
\* Reminder and never called GenerateViewingKey
C5_Witness ==
    /\ last.op = "AuthenticatedRead"
    /\ last.msg.address \in DOMAIN api
    /\ ~hist.key[last.msg.address].some
    /\ hist.reminder[last.msg.address].some
    /\ \E h \in DOMAIN api : hist.key[h] = Some(last.msg.key)
    /\ last.result = Err(unauthorized)

\* C6: once init has run, every AuthenticatedRead that fails fails with
\* Unauthorized, whatever the cause: an address the host cannot resolve, no
\* key stored for the target, or a wrong key.
C6_EveryFailureUnauthorized ==
    (instantiated /\ last.op = "AuthenticatedRead" /\ ~last.result.ok) =>
        last.result = Err(unauthorized)

\* the stores that differ from `store` only in whether `owner` has a
\* ViewingKeyRecord: without it when it has one, else with the hash of any
\* key other than `key`
Siblings(store, owner, key) ==
    IF read_viewing_key(store, owner).some
    THEN {[k \in (DOMAIN store) \ {ViewingKeyStoreKey(owner)} |-> store[k]]}
    ELSE {write_viewing_key(store, owner, other) :
              other \in PresentedKeys(store) \ {key}}

\* a failing run that made one full-length comparison per candidate, against
\* the stored hash, or the zero buffer when none is stored
UniformRun(run, msg, record) ==
    /\ run.result = Err(unauthorized)
    /\ Len(run.steps) = Len(get_validation_params(msg).addresses)
    /\ \A i \in 1..Len(run.steps) :
         /\ run.steps[i].compared = VIEWING_KEY_SIZE
         /\ run.steps[i].against = IF record.some THEN record.val ELSE ZeroBuffer

\* C7: a failing AuthenticatedRead of a target the host resolves makes
\* exactly one comparison per candidate, against the stored hash or, when
\* none is stored, against the zero buffer of the same length; on every store
\* that differs only in whether the target has a ViewingKeyRecord the same
\* query makes the same number of comparisons of the same length and gives
\* the same result.
C7_UniformSteps ==
    (last.op = "AuthenticatedRead" /\ last.msg.address \in DOMAIN api
        /\ ~last.result.ok) =>
        LET owner == api[last.msg.address]
        IN  /\ UniformRun(last, last.msg, read_viewing_key(storage, owner))
            /\ \A other \in Siblings(storage, owner, last.msg.key) :
                 LET run == authenticated_queries(other, api, last.msg)
                 IN  /\ UniformRun(run, last.msg, read_viewing_key(other, owner))
                     /\ run.result = last.result
                     /\ Len(run.steps) = Len(last.steps)

\* a failing read of a target with no key stored, presenting a key issued
\* to another caller: one comparison, against the zero buffer
C7_Witness ==
    /\ last.op = "AuthenticatedRead"
    /\ last.msg.address \in DOMAIN api
    /\ ~read_viewing_key(storage, api[last.msg.address]).some
    /\ \E h \in DOMAIN api : hist.key[h] = Some(last.msg.key)
    /\ last.steps = <<[against |-> ZeroBuffer, compared |-> VIEWING_KEY_SIZE]>>
    /\ last.result = Err(unauthorized)

\* C8: once init has succeeded, after every call the store holds a Config
\* that decodes, whose max_size is the one init was given and lies in
\* 1..65535 and whose prng_seed is the one init derived from its seed; the
\* bytes stored at "config" change only in a successful Record, and then only
\* by reminder_count growing by 1.
C8_ConfigStep ==
    instantiated' =>
        LET now == StoredConfig(storage')
        IN  /\ now.ok
            /\ now.val.max_size = hist'.config.val.max_size
            /\ now.val.max_size \in 1..65535
            /\ now.val.prng_seed = StoredSeed(hist'.config.val.prng_seed)
            /\ (instantiated /\ get(storage', CONFIG_KEY) # get(storage, CONFIG_KEY)) =>
                   /\ last'.op = "Record"
                   /\ last'.result = Recorded
                   /\ now.val = [StoredConfig(storage).val EXCEPT
                                   !.reminder_count = @ + 1]
            /\ (instantiated /\ last'.op = "Record" /\ last'.result = Recorded) =>
                   get(storage', CONFIG_KEY) # get(storage, CONFIG_KEY)

C8_ConfigImmutable == [][C8_ConfigStep]_vars

\* the largest max_size, after Records and a viewing key for every caller
C8_Witness ==
    /\ instantiated
    /\ hist.records = MaxRecords
    /\ \A h \in DOMAIN api : hist.key[h].some
    /\ last.op = "AuthenticatedRead"
    /\ StoredConfig(storage) =
           Ok([max_size |-> 65535,
               reminder_count |-> MaxRecords,
               prng_seed |-> StoredSeed(hist.config.val.prng_seed)])

\* C9: for every caller A, the key A's Reminder is stored under (A's
\* canonical bytes) differs from the key A's ViewingKeyRecord is stored under
\* (the same bytes under the "viewingkey" prefix); a Record by A sets the
\* first and leaves A's ViewingKeyRecord as it was, a GenerateViewingKey by A
\* sets the second and leaves A's Reminder as it was.
C9_NamespaceStep ==
    (last'.op \in {"Record", "GenerateViewingKey"}) =>
        LET A == api[last'.sender]
        IN  /\ A # ViewingKeyStoreKey(A)
            /\ last'.op = "Record" =>
                   /\ read_viewing_key(storage', A) = read_viewing_key(storage, A)
                   /\ last'.result = Recorded =>
                          /\ last'.writes[1] = A
                          /\ load(storage', A, "Reminder") =
                                 Ok([content |-> last'.msg.reminder,
                                     timestamp |-> last'.time])
            /\ last'.op = "GenerateViewingKey" =>
                   /\ get(storage', A) = get(storage, A)
                   /\ last'.result.ok =>
                          /\ last'.writes = <<ViewingKeyStoreKey(A)>>
                          /\ read_viewing_key(storage', A) =
                                 Some(to_hashed(last'.result.val.key))

C9_NamespacesDisjoint == [][C9_NamespaceStep]_vars

\* a caller holding a Reminder is issued a key: both records are in the store
C9_Witness ==
    /\ last.op = "GenerateViewingKey"
    /\ last.result.ok
    /\ hist.reminder[last.sender].some
    /\ load(storage, api[last.sender], "Reminder") =
           Ok(hist.reminder[last.sender].val)
    /\ read_viewing_key(storage, api[last.sender]) =
           Some(to_hashed(last.result.val.key))

\* C10: the key a successful Record stores the caller's Reminder under is
\* never the Config key "config" and never the key a ViewingKeyRecord of any
\* identity is stored under, whatever bytes the caller's identity is.
C10_NoAliasing ==
    (last.op = "Record" /\ last.result = Recorded) =>
        /\ last.writes[1] # CONFIG_KEY
        /\ \A B \in DOMAIN api : last.writes[1] # ViewingKeyStoreKey(api[B])

\* C11: no value in the store is a key the contract can issue: for every
\* caller that holds a key the value under the caller's "viewingkey" key is
\* the hash of the latest key issued to it, and no answer but that of a
\* GenerateViewingKey carries a key.
C11_TokenNeverStored ==
    /\ \A k \in DOMAIN storage :
         \A seed \in DOMAIN IssuableKeys : storage[k] \notin IssuableKeys[seed]
    /\ \A h \in DOMAIN api :
         hist.key[h].some =>
             /\ read_viewing_key(storage, api[h]) = Some(to_hashed(hist.key[h].val))
             /\ to_hashed(hist.key[h].val) # hist.key[h].val
    /\ (last.result.ok /\ last.op # "GenerateViewingKey") =>
           "key" \notin DOMAIN last.result.val

\* a key has just been issued to a caller, after one to every other caller
C11_Witness ==
    /\ last.op = "GenerateViewingKey"
    /\ last.result.ok
    /\ \A h \in DOMAIN api : hist.key[h].some
    /\ read_viewing_key(storage, api[last.sender]) =
           Some(to_hashed(last.result.val.key))

\* the handle messages the model sends
HandleMsgs ==
    {[type |-> "Record", reminder |-> p] : p \in Payloads}
      \cup {[type |-> "Read"]}
      \cup {[type |-> "GenerateViewingKey", entropy |-> e] : e \in Entropies}

\* C12: a call that returns a failure has set no key and leaves the store
\* identical to the store it was given, before any rollback by the host, for
\* every operation (the queries have no store to write to); and a Record
\* that changes the caller's Reminder raises reminder_count by 1 in the same
\* call.
C12_FailuresAreAtomic ==
    /\ ~last.result.ok => last.writes = <<>>
    /\ \A max_size \in MaxSizes, prng_seed \in Seeds :
         \A out \in {init(storage, [type |-> "Init", max_size |-> max_size,
                                    prng_seed |-> prng_seed])} :
             ~out.result.ok => (out.storage = storage /\ out.writes = <<>>)
    /\ \A sender \in DOMAIN api, msg \in HandleMsgs, time \in Times,
          random \in Randoms :
         \A out \in {handle(storage, api,
                            [sender |-> sender, time |-> time, random |-> random],
                            msg)} :
             /\ ~out.result.ok => (out.storage = storage /\ out.writes = <<>>)
             /\ (msg.type = "Record"
                   /\ get(out.storage, api[sender]) # get(storage, api[sender])) =>
                    /\ StoredConfig(storage).ok
                    /\ query_stats(out.storage) =
                           Ok([answer |-> "Stats",
                               reminder_count |->
                                   StoredConfig(storage).val.reminder_count + 1])

\* a Record on a store with a viewing key and a Reminder in it, then a failed
\* query: the store still holds what the Record left
C12_Witness ==
    /\ instantiated
    /\ last.op = "AuthenticatedRead"
    /\ ~last.result.ok
    /\ hist.records = MaxRecords
    /\ query_stats(storage) = Ok([answer |-> "Stats", reminder_count |-> MaxRecords])
    /\ \A h \in DOMAIN api : hist.key[h].some

\* the result of a Read sent by the caller h on the store as it is
SelfRead(h) == try_read(storage, api, [sender |-> h, time |-> 0, random |-> <<>>]).result

\* C13: in every state a Read by a caller A answers "Reminder found." with
\* exactly the content and timestamp of A's latest successful Record, and
\* "Reminder not found." with neither when A has made none, whatever the
\* other callers recorded and whatever Records of A were refused.
C13_SelfReadLatest ==
    /\ last.op = "Read" => last.result = ExpectedRead(last.sender)
    /\ \A h \in DOMAIN api : SelfRead(h) = ExpectedRead(h)

\* a Read finding the caller's second Reminder
C13_Witness ==
    /\ last.op = "Read"
    /\ hist.records = MaxRecords
    /\ \A h \in DOMAIN api : h # last.sender => ~hist.reminder[h].some
    /\ last.result.ok
    /\ last.result.val.status = "Reminder found."

\* C14: a successful AuthenticatedRead of a target answers with exactly the
\* status, content and timestamp a Read sent by the target would get on the
\* same store, which are those of the target's own latest Record.
C14_AuthenticatedReadIsRead ==
    (last.op = "AuthenticatedRead" /\ last.result.ok) =>
        LET own == SelfRead(last.msg.address)
        IN  /\ own.ok
            /\ last.result.val.status = own.val.status
            /\ last.result.val.reminder = own.val.reminder
            /\ last.result.val.timestamp = own.val.timestamp
            /\ last.result = ExpectedRead(last.msg.address)

\* a successful read of a target whose Reminder differs from the one the
\* other caller holds
C14_Witness ==
    /\ last.op = "AuthenticatedRead"
    /\ last.result.ok
    /\ last.result.val.status = "Reminder found."
    /\ \A h \in DOMAIN api :
         h # last.msg.address =>
             (hist.reminder[h].some /\ hist.reminder[h] # hist.reminder[last.msg.address])

\* the result of an AuthenticatedRead of h presenting key, on the store as
\* it is
AuthRead(h, key) ==
    authenticated_queries(storage, api,
                          [type |-> "Read", address |-> h, key |-> key]).result

\* C15: each GenerateViewingKey overwrites the caller's ViewingKeyRecord: in
\* every state an AuthenticatedRead of a caller succeeds with the latest key
\* issued to it and with no other, so the key that a different one replaced
\* is Unauthorized and at most one key per caller is valid.
C15_OneValidKey ==
    /\ \A h \in DOMAIN api, key \in PresentedKeys(storage) :
         AuthRead(h, key).ok <=> hist.key[h] = Some(key)
    /\ \A h \in DOMAIN api, key \in PresentedKeys(storage) :
         hist.key[h] # Some(key) => AuthRead(h, key) = Err(unauthorized)
    /\ replaced.some =>
         /\ hist.key[replaced.val.who].some
         /\ hist.key[replaced.val.who].val # replaced.val.key
         /\ last.op = "AuthenticatedRead" => last.result = Err(unauthorized)

\* after a caller's key was replaced by a different one: a read presenting
\* the replaced key is refused, one presenting the new key would succeed
C15_Witness ==
    /\ replaced.some
    /\ last.op = "AuthenticatedRead"
    /\ last.msg.address = replaced.val.who
    /\ last.msg.key = replaced.val.key
    /\ last.result = Err(unauthorized)
    /\ AuthRead(replaced.val.who, hist.key[replaced.val.who].val).ok

\* C18: a key stays valid until its owner replaces it: in every state, for
\* every caller holding a key, an AuthenticatedRead of the caller with the
\* latest key issued to it succeeds and answers with the caller's latest
\* Reminder, whatever Records, Reads, queries and GenerateViewingKeys of
\* other callers were made since.
C18_KeyStaysValid ==
    /\ \A h \in DOMAIN api :
         hist.key[h].some => AuthRead(h, hist.key[h].val) = ExpectedRead(h)
    /\ (last.op = "AuthenticatedRead" /\ last.msg.address \in DOMAIN api
          /\ hist.key[last.msg.address] = Some(last.msg.key)) =>
           last.result = ExpectedRead(last.msg.address)

\* a read with a key issued some calls ago, after both Records and after the
\* other caller got the other key
C18_Witness ==
    /\ last.op = "AuthenticatedRead"
    /\ ~fresh
    /\ last.msg.address \in DOMAIN api
    /\ hist.key[last.msg.address] = Some(last.msg.key)
    /\ \A h \in DOMAIN api :
         h # last.msg.address => (hist.key[h].some /\ hist.key[h].val # last.msg.key)
    /\ hist.records = MaxRecords
    /\ last.result.ok
    /\ last.result.val.status = "Reminder found."

\* ------------------------------------------------------------------------
\* The storage helpers on their own: save, load and may_load applied to a
\* store that holds encoded records and bytes that are no record
\* ------------------------------------------------------------------------
StoreKeys == {CONFIG_KEY, Canonical(1)}

StoreTypes == {"State", "Reminder"}

\* the extremes of the fields, within the model's number width
StoreValues(T) ==
    IF T = "State"
    THEN {[max_size |-> 0, reminder_count |-> 0, prng_seed |-> <<>>],
          [max_size |-> 280, reminder_count |-> 1, prng_seed |-> <<0>>],
          [max_size |-> 65535, reminder_count |-> 2147483647,
           prng_seed |-> <<97, 98, 99>>]}
    ELSE {[content |-> <<>>, timestamp |-> 0],
          [content |-> <<97>>, timestamp |-> 2147483647],
          [content |-> <<195, 169>>, timestamp |-> 1571797420]}

\* bytes that are no record of either type: nothing, a record cut short
\* inside its length, and a length no buffer holds
RawValues ==
    {<<>>,
     <<2, 0, 0, 0, 0, 0, 0>>,
     [i \in 1..18 |-> 255]}

StoreCall(op, key, T, value, result) ==
    [op |-> op, key |-> key, type |-> T, value |-> value, result |-> result]

StoreSave ==
    /\ \E key \in StoreKeys, T \in StoreTypes :
         \E value \in StoreValues(T) :
           /\ storage' = save(storage, key, T, value)
           /\ last' = StoreCall("save", key, T, value, Ok(<<>>))
    /\ UNCHANGED <<api, instantiated, fresh, replaced, hist>>

\* Storage::set with bytes of the caller's choice
StoreSet ==
    /\ \E key \in StoreKeys, value \in RawValues :
         /\ storage' = set(storage, key, value)
         /\ last' = StoreCall("set", key, "bytes", value, Ok(<<>>))
    /\ UNCHANGED <<api, instantiated, fresh, replaced, hist>>

\* load borrows the store read-only
StoreLoad ==
    /\ \E key \in StoreKeys, T \in StoreTypes :
         last' = StoreCall("load", key, T, <<>>, load(storage, key, T))
    /\ UNCHANGED <<storage, api, instantiated, fresh, replaced, hist>>

StoreMayLoad ==
    /\ \E key \in StoreKeys, T \in StoreTypes :
         last' = StoreCall("may_load", key, T, <<>>, may_load(storage, key, T))
    /\ UNCHANGED <<storage, api, instantiated, fresh, replaced, hist>>

NextStore ==
    \/ StoreSave
    \/ StoreSet
    \/ StoreLoad
    \/ StoreMayLoad

SpecStore == Init /\ [][NextStore]_vars

\* b begins with a
IsPrefix(a, b) == Len(a) <= Len(b) /\ SubSeq(b, 1, Len(a)) = a

\* the bytes begin with the encoding of a record of type T
Decodes(T, bytes) == \E v \in StoreValues(T) : IsPrefix(serialize(T, v), bytes)

\* C16: load fails with NotFound when the key is absent and with a decode
\* error when the bytes at the key are no record of the type asked for;
\* may_load answers an absent key with no value and fails in the same way on
\* bytes that are no record; neither changes the store.
C16_LoadStep ==
    last'.op \in {"load", "may_load"} =>
        LET key == last'.key
            T == last'.type
            got == get(storage, key)
        IN  /\ storage' = storage
            /\ ~got.some =>
                 last'.result = IF last'.op = "load"
                                THEN Err(not_found(T)) ELSE Ok(None)
            /\ (got.some /\ ~Decodes(T, got.val)) =>
                 last'.result = Err(parse_err(T))
            /\ (got.some /\ Decodes(T, got.val)) => last'.result.ok

C16_LoadErrors == [][C16_LoadStep]_vars

\* may_load failed on bytes that are no Reminder, next to a key that is absent
C16_Witness ==
    /\ last.op = "may_load"
    /\ last.type = "Reminder"
    /\ last.key \in DOMAIN storage
    /\ storage[last.key] # <<>>
    /\ ~Decodes("Reminder", storage[last.key])
    /\ last.result = Err(parse_err("Reminder"))
    /\ \E k \in StoreKeys : k \notin DOMAIN storage

\* C17: after save(store, k, r), load(store, k) returns r, field by field,
\* for every Config and every Reminder r and every key k, and every other
\* key holds what it held before.
C17_SaveStep ==
    last'.op = "save" =>
        LET loaded == load(storage', last'.key, last'.type)
            r == last'.value
        IN  /\ loaded.ok
            /\ DOMAIN loaded.val = DOMAIN r
            /\ \A f \in DOMAIN r : loaded.val[f] = r[f]
            /\ \A k \in (DOMAIN storage \cup DOMAIN storage') \ {last'.key} :
                 get(storage', k) = get(storage, k)

C17_SaveLoadRoundTrip == [][C17_SaveStep]_vars

\* a Config with a seed saved next to another key that holds a record
C17_Witness ==
    /\ last.op = "save"
    /\ last.type = "State"
    /\ last.value.prng_seed # <<>>
    /\ load(storage, last.key, "State") = Ok(last.value)
    /\ \E k \in DOMAIN storage : k # last.key /\ Decodes("Reminder", storage[k])

\* C19: while the store holds no Config, Record, GenerateViewingKey and
\* Stats each fail with NotFound (of the Config) and leave the store as it
\* is, so the store of a contract without Config holds nothing at all; a
\* Read of the caller's own Reminder does not fail there and answers
\* "Reminder not found.".
C19_UninitializedStep ==
    get(storage, CONFIG_KEY) = None =>
        /\ last'.op \in {"Record", "GenerateViewingKey", "Stats"} =>
             /\ last'.result = Err(not_found("State"))
             /\ storage' = storage
        /\ last'.op = "Read" =>
             /\ last'.result = Ok([answer |-> "Read",
                                   status |-> "Reminder not found.",
                                   reminder |-> None,
                                   timestamp |-> None])
             /\ storage' = storage
        /\ storage = EmptyStorage
        /\ get(storage', CONFIG_KEY) = None => storage' = EmptyStorage

C19_NothingBeforeInitialize == [][C19_UninitializedStep]_vars

\* a GenerateViewingKey that failed on the missing Config, after which the
\* store is still empty
C19_Witness ==
    /\ ~instantiated
    /\ get(storage, CONFIG_KEY) = None
    /\ storage = EmptyStorage
    /\ last.op = "GenerateViewingKey"
    /\ last.msg.entropy # <<>>
    /\ last.result = Err(not_found("State"))

\* the keys at which the two stores differ
Changed(before, after) ==
    {k \in (DOMAIN before) \cup (DOMAIN after) : get(before, k) # get(after, k)}

\* C20: Read, Stats and AuthenticatedRead leave the whole store as it is,
\* whether they succeed or fail; a Record by A changes nothing but A's
\* Reminder and the Config's reminder_count; a GenerateViewingKey by A
\* changes nothing but A's viewing-key record; no call changes the Reminder
\* or the viewing-key record of an identity that is not its caller; no call
\* removes a key.
C20_FrameStep ==
    /\ last'.op \in {"Read", "Stats", "AuthenticatedRead"} => storage' = storage
    /\ last'.op = "Record" =>
         /\ Changed(storage, storage') \subseteq {api[last'.sender], CONFIG_KEY}
         /\ CONFIG_KEY \in Changed(storage, storage') =>
              /\ StoredConfig(storage).ok
              /\ StoredConfig(storage') =
                   Ok([StoredConfig(storage).val EXCEPT
                         !.reminder_count = StoredConfig(storage').val.reminder_count])
    /\ last'.op = "GenerateViewingKey" =>
         Changed(storage, storage') \subseteq {ViewingKeyStoreKey(api[last'.sender])}
    /\ \A h \in DOMAIN api :
         h # last'.sender =>
           /\ get(storage', api[h]) = get(storage, api[h])
           /\ get(storage', ViewingKeyStoreKey(api[h])) =
                get(storage, ViewingKeyStoreKey(api[h]))
    /\ DOMAIN storage \subseteq DOMAIN storage'

C20_Frame == [][C20_FrameStep]_vars

\* the last Record the bound allows, by a caller that holds a viewing key,
\* while the other identity holds a Reminder and a viewing key
C20_Witness ==
    /\ last.op = "Record"
    /\ last.result = Recorded
    /\ hist.key[last.sender].some
    /\ get(storage, ViewingKeyStoreKey(api[last.sender])) # None
    /\ \E h \in DOMAIN api :
         /\ h # last.sender
         /\ get(storage, api[h]) # None
         /\ get(storage, ViewingKeyStoreKey(api[h])) # None
    /\ StoredConfig(storage).ok
    /\ StoredConfig(storage).val.reminder_count = MaxRecords

====
